---- MODULE Spec2Model ----
(***************************************************************************)
(* A model of main.py, the 5-minute aligned Kalshi weather ladder worker:  *)
(* the entry-point loop, sleep_until_next_5_min_mark, run_snapshot with    *)
(* its ladder construction and bucket assignment, and extract_depth.       *)
(*                                                                         *)
(* Strings the program takes apart (market tickers, suffixes) are          *)
(* sequences of one-character strings; strings it only passes around       *)
(* (event tickers) are TLA+ strings.  A Python value that may be None is a *)
(* sequence of length at most one: None is << >>, the value v is << v >>.  *)
(***************************************************************************)
EXTENDS Integers, Sequences, FiniteSets, TLC

VARIABLES
    pc,              \* position of the single thread of control
    env_key,         \* os.getenv("KALSHI_PRIVATE_KEY"): "valid", "missing", "malformed"
    now,             \* the wall clock, datetime.datetime.now(datetime.UTC)
    wait_from,       \* `now` as read by the latest sleep_until_next_5_min_mark (optional)
    next_run,        \* `next_run` as computed by the latest sleep_until_next_5_min_mark (optional)
    slept,           \* whether the latest time.sleep was given a positive duration
    cycle_starts,    \* the clock at each call of run_snapshot so far, in call order
    timestamp,       \* run_snapshot: timestamp (optional)
    rows_to_insert,  \* run_snapshot: rows_to_insert
    series_idx,      \* run_snapshot: position in SERIES_TICKERS
    events,          \* run_snapshot: the events of the current series still to visit
    event_ticker,    \* run_snapshot: event_ticker
    markets,         \* run_snapshot: markets, as the latest get_open_markets returned it
    t_markets,       \* run_snapshot: t_markets
    ordered_markets, \* run_snapshot: ordered_markets
    idx,             \* run_snapshot: number of ordered_markets already visited
    orderbook,       \* run_snapshot: orderbook, as returned by get_orderbook
    depth,           \* run_snapshot: yes_bids and yes_asks
    table,           \* the rows of the Supabase table TABLE_NAME
    insert_calls,    \* number of insert(...).execute() calls made so far
    outcome          \* the latest run_snapshot call: how it ended ("none" before the
                     \* first call, "running", "returned", "raised") and the length
                     \* of rows_to_insert when it ended

vars == <<pc, env_key, now, wait_from, next_run, slept, cycle_starts,
          timestamp, rows_to_insert, series_idx, events, event_ticker, markets,
          t_markets, ordered_markets, idx, orderbook, depth, table, insert_calls,
          outcome>>

----------------------------------------------------------------------------
\* Python values

None == << >>

Some(v) == << v >>

----------------------------------------------------------------------------
\* datetime

MinutesPerHour == 60

HoursPerDay == 24

SecondsPerMinute == 60

\* A datetime: the date as a day number, and the time of day.
DateTime(d, h, m, s, us) ==
    [day |-> d, hour |-> h, minute |-> m, second |-> s, microsecond |-> us]

\* Whole seconds since midnight of day 0.
Seconds(t) ==
    ((t.day * HoursPerDay + t.hour) * MinutesPerHour + t.minute) * SecondsPerMinute
        + t.second

\* a < b on datetimes
Earlier(a, b) ==
    \/ Seconds(a) < Seconds(b)
    \/ Seconds(a) = Seconds(b) /\ a.microsecond < b.microsecond

\* t + timedelta(seconds = d)
AddSeconds(t, d) ==
    LET total == Seconds(t) + d
        perDay == HoursPerDay * MinutesPerHour * SecondsPerMinute
        inDay == total % perDay
    IN  [day |-> total \div perDay,
         hour |-> inDay \div (MinutesPerHour * SecondsPerMinute),
         minute |-> (inDay \div SecondsPerMinute) % MinutesPerHour,
         second |-> inDay % SecondsPerMinute,
         microsecond |-> t.microsecond]

----------------------------------------------------------------------------
\* sleep_until_next_5_min_mark

Step == 5

\* next_minute = (math.floor(minute / 5) + 1) * 5
NextMinute(minute) == ((minute \div Step) + 1) * Step

\* now.replace(...): the fields named are replaced, the date is kept.
NextRunHourWrap(t) ==
    [t EXCEPT !.hour = (t.hour + 1) % HoursPerDay,
              !.minute = 0, !.second = 0, !.microsecond = 0]

NextRunOf(t) ==
    IF NextMinute(t.minute) = MinutesPerHour
    THEN NextRunHourWrap(t)
    ELSE [t EXCEPT !.minute = NextMinute(t.minute), !.second = 0, !.microsecond = 0]

\* time.sleep(max(0, sleep_seconds)) returns no earlier than after that long.
WakeTime(t, target) == IF Earlier(t, target) THEN target ELSE t

----------------------------------------------------------------------------
\* str

\* The text of a ticker, one character per element.
Digits == {"0", "1", "2", "3", "4", "5", "6", "7", "8", "9"}

DigitValue(c) ==
    CASE c = "0" -> 0 [] c = "1" -> 1 [] c = "2" -> 2 [] c = "3" -> 3
      [] c = "4" -> 4 [] c = "5" -> 5 [] c = "6" -> 6 [] c = "7" -> 7
      [] c = "8" -> 8 [] c = "9" -> 9

\* s[i:], 0-based as in Python
From(s, i) == SubSeq(s, i + 1, Len(s))

\* s.startswith(c), c one character
StartsWith(s, c) == Len(s) > 0 /\ s[1] = c

\* s.split("-")[-1]: what follows the last "-", or all of s when it has none
LastSegment(s) ==
    LET dashes == {i \in 1..Len(s) : s[i] = "-"}
    IN  IF dashes = {} THEN s
        ELSE LET last == CHOOSE i \in dashes : \A j \in dashes : j <= i
             IN  SubSeq(s, last + 1, Len(s))

RECURSIVE DigitsValue(_)
DigitsValue(s) ==
    IF s = << >> THEN 0
    ELSE DigitsValue(SubSeq(s, 1, Len(s) - 1)) * 10 + DigitValue(s[Len(s)])

\* float(s) succeeds.  Over the characters the tickers of this model are
\* written in (letters other than e, E and those of inf and nan; digits; "."),
\* a text is a float exactly when it is digits with at most one ".", and at
\* least one digit.
IsFloatText(s) ==
    /\ \A i \in 1..Len(s) : s[i] \in Digits \cup {"."}
    /\ Cardinality({i \in 1..Len(s) : s[i] = "."}) <= 1
    /\ \E i \in 1..Len(s) : s[i] \in Digits

\* IntOfFloat with a guard that reads a text that is no number as 0
IntOfFloatOrZero(s) ==
    IF ~IsFloatText(s) THEN Some(0)
    ELSE LET dots == {i \in 1..Len(s) : s[i] = "."}
             whole == IF dots = {} THEN s
                      ELSE SubSeq(s, 1, (CHOOSE i \in dots : TRUE) - 1)
         IN  Some(DigitsValue(whole))

\* int(float(s)): the digits before the ".", the fraction cut off.
\* None stands for the ValueError that float raises.
IntOfFloat(s) ==
    IF ~IsFloatText(s) THEN None
    ELSE LET dots == {i \in 1..Len(s) : s[i] = "."}
             whole == IF dots = {} THEN s
                      ELSE SubSeq(s, 1, (CHOOSE i \in dots : TRUE) - 1)
         IN  Some(DigitsValue(whole))

\* lambda x: int(float(x["suffix"][1:]))
SortKey(m) == IntOfFloat(From(m.suffix, 1))

\* sorted(list, key=...): stable, ascending.  All keys are present.
RECURSIVE Sorted(_)
Sorted(s) ==
    IF s = << >> THEN << >>
    ELSE LET front == Sorted(SubSeq(s, 1, Len(s) - 1))
             x == s[Len(s)]
             \* x goes behind every element whose key is not larger
             keep == Cardinality({i \in 1..Len(front) :
                                    SortKey(front[i])[1] <= SortKey(x)[1]})
         IN  SubSeq(front, 1, keep) \o << x >> \o SubSeq(front, keep + 1, Len(front))

----------------------------------------------------------------------------
\* run_snapshot: the ladder of one event

\* market.get("ticker"), with `not market_ticker` true of None and of "":
\* a market without a ticker has the empty text.
IsBT(suffix) == StartsWith(suffix, "B") \/ StartsWith(suffix, "T")

\* KeepMarket without the test for "T"
KeepMarketB(market) ==
    /\ market.ticker # << >>
    /\ StartsWith(LastSegment(market.ticker), "B")

KeepMarket(market) ==
    /\ market.ticker # << >>
    /\ IsBT(LastSegment(market.ticker))

EventMarket(market) ==
    [ticker |-> market.ticker, suffix |-> LastSegment(market.ticker)]

\* event_markets of the markets returned for one event
EventMarkets(ms) ==
    LET kept == SelectSeq(ms, KeepMarket)
    IN  [i \in 1..Len(kept) |-> EventMarket(kept[i])]

IsT(m) == StartsWith(m.suffix, "T")

IsB(m) == StartsWith(m.suffix, "B")

\* Both sorted(...) calls return: no key raises.
KeysParse(event_markets) ==
    \A i \in 1..Len(event_markets) : SortKey(event_markets[i]) # None

TMarkets(event_markets) == Sorted(SelectSeq(event_markets, IsT))

BMarkets(event_markets) == Sorted(SelectSeq(event_markets, IsB))

\* OrderedMarkets with `len(t_markets) > 0` as the test for the last T market
OrderedMarketsBothEnds(t, b) ==
    (IF Len(t) > 0 THEN << t[1] >> ELSE << >>)
        \o b
        \o (IF Len(t) > 0 THEN << t[Len(t)] >> ELSE << >>)

OrderedMarkets(t, b) ==
    (IF Len(t) > 0 THEN << t[1] >> ELSE << >>)
        \o b
        \o (IF Len(t) > 1 THEN << t[Len(t)] >> ELSE << >>)

\* Bucket with the tail bounds at the value itself
BucketAtValue(market_data, t) ==
    LET value == IntOfFloat(From(market_data.suffix, 1))[1]
    IN  IF StartsWith(market_data.suffix, "B")
        THEN [bucket_type |-> "range", lower_bound |-> Some(value),
              upper_bound |-> Some(value + 1)]
        ELSE IF market_data = t[1]
        THEN [bucket_type |-> "below", lower_bound |-> None,
              upper_bound |-> Some(value)]
        ELSE [bucket_type |-> "above", lower_bound |-> Some(value),
              upper_bound |-> None]

\* bucket_type, lower_bound, upper_bound of one ordered market
Bucket(market_data, t) ==
    LET value == IntOfFloat(From(market_data.suffix, 1))[1]
    IN  IF StartsWith(market_data.suffix, "B")
        THEN [bucket_type |-> "range", lower_bound |-> Some(value),
              upper_bound |-> Some(value + 1)]
        ELSE IF StartsWith(market_data.suffix, "T")
        THEN IF market_data = t[1]
             THEN [bucket_type |-> "below", lower_bound |-> None,
                   upper_bound |-> Some(value - 1)]
             ELSE [bucket_type |-> "above", lower_bound |-> Some(value + 1),
                   upper_bound |-> None]
        ELSE [bucket_type |-> "", lower_bound |-> None, upper_bound |-> None]

----------------------------------------------------------------------------
\* extract_depth

Depth == 5

Complement == 100

\* orderbook.get(side) or []: a side is absent, null or a list of
\* [price, quantity] pairs.
Null == [kind |-> "null"]

List(items) == [kind |-> "list", items |-> items]

\* {}
EmptyDict == [kind |-> "dict"]

SideOrEmpty(book, side) ==
    IF side \notin DOMAIN book THEN << >>
    ELSE IF book[side].kind = "null" THEN << >>
    ELSE book[side].items

\* list(reversed(s))
Reversed(s) == [i \in 1..Len(s) |-> s[Len(s) + 1 - i]]

\* s[:n]
Take(s, n) == SubSeq(s, 1, IF Len(s) < n THEN Len(s) ELSE n)

\* sorted(levels, key=lambda x: x[0]): stable, ascending by price
RECURSIVE SortedByPrice(_)
SortedByPrice(s) ==
    IF s = << >> THEN << >>
    ELSE LET front == SortedByPrice(SubSeq(s, 1, Len(s) - 1))
             x == s[Len(s)]
             keep == Cardinality({i \in 1..Len(front) : front[i][1] <= x[1]})
         IN  SubSeq(front, 1, keep) \o << x >> \o SubSeq(front, keep + 1, Len(front))

YesBids(book) == Take(Reversed(SideOrEmpty(book, "yes")), Depth)

\* NoBids without the reversal: the first 5 levels as the venue sent them
NoBidsAsSent(book) == Take(SideOrEmpty(book, "no"), Depth)

NoBids(book) == Take(Reversed(SideOrEmpty(book, "no")), Depth)

YesAsks(book) ==
    LET no_bids == NoBids(book)
    IN  Take(SortedByPrice([i \in 1..Len(no_bids) |->
                              << Complement - no_bids[i][1], no_bids[i][2] >>]),
             Depth)

extract_depth(book) ==
    [yes_bids |-> YesBids(book), yes_asks |-> YesAsks(book)]

\* row[f"bid{i+1}_price"], ... for i in range(5): the level's field, or None
Column(levels, field) ==
    [i \in 1..Depth |-> IF i <= Len(levels) THEN Some(levels[i][field]) ELSE None]

----------------------------------------------------------------------------
\* API fetchers: r.json().get(key, default)

JsonGet(body, key, default) == IF key \in DOMAIN body THEN body[key] ELSE default

get_open_events(body) == JsonGet(body, "events", << >>)

get_open_markets(body) == JsonGet(body, "markets", << >>)

\* r.json().get("orderbook", {}) or {}: {} is the record without "yes" and "no"
get_orderbook(body) ==
    LET book == JsonGet(body, "orderbook", EmptyDict)
    IN  IF book.kind = "null" THEN EmptyDict ELSE book

\* event.get("event_ticker") or event.get("ticker"): a key the event lacks
\* reads as "", which `or` treats as it treats None
EventTicker(event) ==
    IF event.event_ticker # "" THEN event.event_ticker ELSE event.ticker

----------------------------------------------------------------------------
\* run_snapshot: one row

Row(ts, event, market_data, order_number, bucket, levels) ==
    [timestamp_utc |-> ts,
     event |-> event,
     market |-> market_data.suffix,
     bucket_type |-> bucket.bucket_type,
     lower_bound |-> bucket.lower_bound,
     upper_bound |-> bucket.upper_bound,
     order |-> order_number,
     bid_price |-> Column(levels.yes_bids, 1),
     bid_qty |-> Column(levels.yes_bids, 2),
     ask_price |-> Column(levels.yes_asks, 1),
     ask_qty |-> Column(levels.yes_asks, 2)]

----------------------------------------------------------------------------
\* The venue, the environment and the bounds of the model

\* Lists without repetition, of at most n elements of S: a venue's markets
\* have unique tickers.
Lists(S, n) ==
    {s \in UNION {[1..k -> S] : k \in 0..n} :
        \A i, j \in 1..Len(s) : s[i] = s[j] => i = j}

\* Ascending lists (ties allowed) of at most n levels with prices in P and
\* quantities in Q: the venue returns a side ascending by price.
Levels(P, Q, n) ==
    {s \in UNION {[1..k -> P \X Q] : k \in 0..n} :
        \A i \in 1..Len(s) - 1 : s[i][1] <= s[i + 1][1]}

Ticker(suffix) == << "X", "-" >> \o suffix

\* A configuration of the model: how many series the worker is configured
\* with, what the venue may answer, when the process may start, how long a
\* cycle may take and how many cycles are followed.
Config(n, evs, tks, mm, bks, sts, ds, mc, keys) ==
    [series |-> n, eventBodies |-> evs, tickers |-> tks, maxMarkets |-> mm,
     bookBodies |-> bks, starts |-> sts, durations |-> ds, maxCycles |-> mc,
     keys |-> keys]

MarketBodies(cfg) ==
    {[message |-> "no markets"]}
        \cup {[markets |-> [i \in 1..Len(l) |-> [ticker |-> l[i]]]] :
                l \in Lists(cfg.tickers, cfg.maxMarkets)}

----------------------------------------------------------------------------
\* The worker

NoDepth == [yes_bids |-> << >>, yes_asks |-> << >>]

InitOf(cfg) ==
    /\ pc = "Start"
    /\ env_key \in cfg.keys
    /\ now \in cfg.starts
    /\ wait_from = None
    /\ next_run = None
    /\ slept = FALSE
    /\ cycle_starts = << >>
    /\ timestamp = None
    /\ rows_to_insert = << >>
    /\ series_idx = 0
    /\ events = << >>
    /\ event_ticker = ""
    /\ markets = << >>
    /\ t_markets = << >>
    /\ ordered_markets = << >>
    /\ idx = 0
    /\ orderbook = EmptyDict
    /\ depth = NoDepth
    /\ table = << >>
    /\ insert_calls = 0
    /\ outcome = [how |-> "none", rows |-> 0]

sched == <<wait_from, next_run, slept>>

\* __main__, up to the loop
Main ==
    /\ pc = "Start"
    /\ pc' = "Waiting"
    /\ UNCHANGED <<env_key, now, sched, cycle_starts, timestamp, rows_to_insert,
                   series_idx, events, event_ticker, markets, t_markets,
                   ordered_markets, idx, orderbook, depth, table, insert_calls,
                   outcome>>

\* sleep_until_next_5_min_mark(), called at the head of the loop
sleep_until_next_5_min_mark(cfg) ==
    /\ pc = "Waiting"
    /\ Len(cycle_starts) < cfg.maxCycles
    /\ wait_from' = Some(now)
    /\ next_run' = Some(NextRunOf(now))
    /\ slept' = Earlier(now, NextRunOf(now))
    /\ now' = WakeTime(now, NextRunOf(now))
    /\ pc' = "Running"
    /\ UNCHANGED <<env_key, cycle_starts, timestamp, rows_to_insert, series_idx,
                   events, event_ticker, markets, t_markets, ordered_markets, idx,
                   orderbook, depth, table, insert_calls, outcome>>

\* run_snapshot is left: its locals are gone, the time the cycle took has
\* passed, `stored` has been added to the table by `calls` insert calls, and
\* control is at `to`.
Leave(cfg, how, to, stored, calls) ==
    /\ pc' = to
    /\ outcome' = [how |-> how, rows |-> Len(rows_to_insert)]
    /\ table' = table \o stored
    /\ insert_calls' = insert_calls + calls
    /\ timestamp' = None
    /\ rows_to_insert' = << >>
    /\ series_idx' = 0
    /\ events' = << >>
    /\ event_ticker' = ""
    /\ t_markets' = << >>
    /\ ordered_markets' = << >>
    /\ idx' = 0
    /\ orderbook' = EmptyDict
    /\ depth' = NoDepth
    /\ \E d \in cfg.durations : now' = AddSeconds(now, d)
    /\ UNCHANGED <<env_key, sched>>

\* Raise with the insert in a `finally`: the rows accumulated are stored
RaiseAfterInsert(cfg) == Leave(cfg, "raised", "Waiting", rows_to_insert, 1)

\* Raise without the loop's `except`: the exception ends the process
RaiseUncaught(cfg) == Leave(cfg, "raised", "Exited", << >>, 0)

\* An exception leaves run_snapshot before the insert: the loop's
\* `except Exception` catches and prints it, and the loop is at its head again.
Raise(cfg) == Leave(cfg, "raised", "Waiting", << >>, 0)

\* run_snapshot, lines 120-125: create_client, load_private_key_from_env,
\* timestamp, rows_to_insert
run_snapshot_begin(cfg) ==
    /\ pc = "Running"
    /\ cycle_starts' = Append(cycle_starts, now)
    /\ markets' = << >>
    /\ \/ Raise(cfg)        \* create_client raises
       \/ /\ env_key # "valid"
          /\ Raise(cfg)     \* load_private_key_from_env raises
       \/ /\ env_key = "valid"
          /\ timestamp' = Some(now)
          /\ rows_to_insert' = << >>
          /\ series_idx' = 1
          /\ outcome' = [how |-> "running", rows |-> 0]
          /\ pc' = "Series"
          /\ UNCHANGED <<env_key, now, sched, events, event_ticker, t_markets,
                         ordered_markets, idx, orderbook, depth, table,
                         insert_calls>>

\* for series in SERIES_TICKERS: events = get_open_events(series, private_key)
series_loop(cfg) ==
    /\ pc = "Series"
    /\ UNCHANGED <<cycle_starts, markets>>
    /\ IF series_idx > cfg.series
       THEN /\ pc' = "Insert"
            /\ UNCHANGED <<env_key, now, sched, timestamp, rows_to_insert,
                           series_idx, events, event_ticker, t_markets,
                           ordered_markets, idx, orderbook, depth, table,
                           insert_calls, outcome>>
       ELSE \/ Raise(cfg)   \* requests.get or r.json raises
            \/ \E body \in cfg.eventBodies :
                 /\ events' = get_open_events(body)
                 /\ pc' = "Events"
                 /\ UNCHANGED <<env_key, now, sched, timestamp, rows_to_insert,
                                series_idx, event_ticker, t_markets,
                                ordered_markets, idx, orderbook, depth, table,
                                insert_calls, outcome>>

\* for event in events: lines 133-172
event_loop(cfg) ==
    /\ pc = "Events"
    /\ UNCHANGED cycle_starts
    /\ IF events = << >>
       THEN /\ series_idx' = series_idx + 1
            /\ pc' = "Series"
            /\ UNCHANGED <<env_key, now, sched, timestamp, rows_to_insert, events,
                           event_ticker, markets, t_markets, ordered_markets, idx,
                           orderbook, depth, table, insert_calls, outcome>>
       ELSE \/ Raise(cfg) /\ UNCHANGED markets   \* requests.get or r.json raises
            \/ \E body \in MarketBodies(cfg) :
                 LET event_markets == EventMarkets(get_open_markets(body))
                 IN  /\ markets' = get_open_markets(body)
                     /\ IF ~KeysParse(event_markets)
                        THEN Raise(cfg)   \* int(float(...)) raises in sorted
                        ELSE /\ event_ticker' = EventTicker(Head(events))
                             /\ t_markets' = TMarkets(event_markets)
                             /\ ordered_markets' =
                                    OrderedMarkets(TMarkets(event_markets),
                                                   BMarkets(event_markets))
                             /\ idx' = 0
                             /\ pc' = "Markets"
                             /\ UNCHANGED <<env_key, now, sched, timestamp,
                                            rows_to_insert, series_idx, events,
                                            orderbook, depth, table, insert_calls,
                                            outcome>>

\* for idx, market_data in enumerate(ordered_markets): lines 176-228
market_loop(cfg) ==
    /\ pc = "Markets"
    /\ UNCHANGED <<cycle_starts, markets>>
    /\ IF idx = Len(ordered_markets)
       THEN /\ events' = Tail(events)
            /\ pc' = "Events"
            /\ UNCHANGED <<env_key, now, sched, timestamp, rows_to_insert,
                           series_idx, event_ticker, t_markets, ordered_markets,
                           idx, orderbook, depth, table, insert_calls, outcome>>
       ELSE \/ Raise(cfg)   \* requests.get or r.json raises
            \/ \E body \in cfg.bookBodies :
                 LET market_data == ordered_markets[idx + 1]
                     yes == extract_depth(get_orderbook(body))
                 IN  /\ orderbook' = get_orderbook(body)
                     /\ depth' = yes
                     /\ rows_to_insert' =
                            Append(rows_to_insert,
                                   Row(timestamp[1], event_ticker, market_data,
                                       idx + 1, Bucket(market_data, t_markets),
                                       yes))
                     /\ idx' = idx + 1
                     /\ UNCHANGED <<pc, env_key, now, sched, timestamp, series_idx,
                                    events, event_ticker, t_markets,
                                    ordered_markets, table, insert_calls, outcome>>

\* if rows_to_insert: supabase.table(TABLE_NAME).insert(rows_to_insert).execute()
\* The insert is one request to the store, which takes all of its rows or
\* none; execute() raises when the store refuses the request, and also when
\* the request fails after the store has taken it (the answer is lost).
insert_rows(cfg) ==
    /\ pc = "Insert"
    /\ UNCHANGED <<cycle_starts, markets>>
    /\ IF rows_to_insert # << >>
       THEN \/ Leave(cfg, "returned", "Waiting", rows_to_insert, 1)
            \/ Leave(cfg, "raised", "Waiting", << >>, 1)
            \/ Leave(cfg, "raised", "Waiting", rows_to_insert, 1)
       ELSE Leave(cfg, "returned", "Waiting", << >>, 0)

NextOf(cfg) ==
    \/ Main
    \/ sleep_until_next_5_min_mark(cfg)
    \/ run_snapshot_begin(cfg)
    \/ series_loop(cfg)
    \/ event_loop(cfg)
    \/ market_loop(cfg)
    \/ insert_rows(cfg)

----------------------------------------------------------------------------
\* Texts and answers of the venue

B20 == << "B", "2", "0" >>

B21 == << "B", "2", "1" >>

B20_5 == << "B", "2", "0", ".", "5" >>

T15 == << "T", "1", "5" >>

T19 == << "T", "1", "9" >>

T23 == << "T", "2", "3" >>

BOS == << "B", "O", "S" >>

T == << "T" >>

Y7 == << "Y", "7" >>

NoTicker == << >>

NyEvent == [event_ticker |-> "KXHIGHNY-26NOV06", ticker |-> ""]

MiaEvent == [event_ticker |-> "", ticker |-> "KXHIGHMIA-26NOV06"]

NoEvents == {[message |-> "no events"], [events |-> << >>]}

OneBook ==
    [orderbook |-> [kind |-> "dict", yes |-> List(<< <<40, 10>>, <<45, 7>> >>),
                    no |-> List(<< <<50, 3>> >>)]]

Noon == DateTime(0, 12, 7, 31, 250)

----------------------------------------------------------------------------
\* The worker: two series, a venue with one event per series and short
\* market lists, a start at midday or shortly before midnight

MaxMarkets == 1

MaxCycles == 2

SERIES_TICKERS == << "KXHIGHNY", "KXHIGHMIA" >>

StartTimes == {Noon, DateTime(0, 23, 52, 10, 0)}

\* A cycle takes seconds, or overruns the next 5-minute mark.
Durations == {2, 400}

MainConfig ==
    Config(Len(SERIES_TICKERS), NoEvents \cup {[events |-> << NyEvent >>], [events |-> << MiaEvent >>]},
           {Ticker(B20), Ticker(BOS)}, MaxMarkets, {OneBook}, StartTimes,
           Durations, MaxCycles, {"valid", "missing", "malformed"})

Init == InitOf(MainConfig)

Next == NextOf(MainConfig)

Spec == Init /\ [][Next]_vars

----------------------------------------------------------------------------
\* sleep_until_next_5_min_mark at every minute of the day

AllTimes ==
    {DateTime(0, h, m, s, us) :
        h \in 0..(HoursPerDay - 1), m \in 0..(MinutesPerHour - 1),
        s \in {0, 31, 59}, us \in {0, 1, 999999}}

SleepConfig ==
    Config(0, NoEvents, {}, 0, {OneBook}, AllTimes, {2}, 1, {"valid"})

InitSleep == InitOf(SleepConfig)

NextSleep == Main \/ sleep_until_next_5_min_mark(SleepConfig)

SpecSleep == InitSleep /\ [][NextSleep]_vars

----------------------------------------------------------------------------
\* One cycle over one event, the venue answering with any list of markets

LadderMaxMarkets == 4

LadderTickers ==
    {Ticker(B20), Ticker(B21), Ticker(B20_5), Ticker(T15), Ticker(T19),
     Ticker(T23), Ticker(BOS), Ticker(T), Ticker(Y7), NoTicker}

LadderConfig ==
    Config(1, {[events |-> << NyEvent >>]},
           LadderTickers, LadderMaxMarkets, {OneBook}, {Noon}, {2}, 1, {"valid"})

InitLadder == InitOf(LadderConfig)

NextLadder == NextOf(LadderConfig)

SpecLadder == InitLadder /\ [][NextLadder]_vars

----------------------------------------------------------------------------
\* One cycle over one market, the venue answering with any order book

MaxLevels == 6

Prices == {0, 40, 100}

Quantities == {1, 2}

Sides ==
    {Null} \cup {List(l) : l \in Levels(Prices, Quantities, MaxLevels)}

\* Each side is read on its own: one side varies while the other is fixed.
BookBodies ==
    {[message |-> "no orderbook"], [orderbook |-> Null], [orderbook |-> EmptyDict]}
        \cup {[orderbook |-> [kind |-> "dict", yes |-> y]] : y \in Sides}
        \cup {[orderbook |-> [kind |-> "dict", no |-> n]] : n \in Sides}
        \cup {[orderbook |-> [kind |-> "dict", yes |-> y, no |-> OneBook.orderbook.no]] :
                y \in Sides}
        \cup {[orderbook |-> [kind |-> "dict", yes |-> OneBook.orderbook.yes, no |-> n]] :
                n \in Sides}

DepthConfig ==
    Config(1, {[events |-> << NyEvent >>]}, {Ticker(B20)}, 1, BookBodies, {Noon},
           {2}, 1, {"valid"})

InitDepth == InitOf(DepthConfig)

NextDepth == NextOf(DepthConfig)

SpecDepth == InitDepth /\ [][NextDepth]_vars

----------------------------------------------------------------------------
\* The scheduler's fairness: the single thread always takes its next step,
\* and every blocking call (time.sleep, requests.get, the insert) ends, by
\* returning or by raising.

FairSpec == Spec /\ WF_vars(Next)

----------------------------------------------------------------------------
\* Properties

\* The positions inside run_snapshot, and at its call: the Running phase
InCycle == {"Running", "Series", "Events", "Markets", "Insert"}

\* The 5-minute window a datetime lies in
Window(t) == Seconds(t) \div (Step * SecondsPerMinute)

\* C1: for every current time, the next_run that sleep_until_next_5_min_mark
\* computes is strictly later than now, lies on a 5-minute mark with second
\* and microsecond zero, and is the earliest such instant (at most 5 minutes
\* ahead), so the sleep is positive.
C1_NextRunIsNextMark ==
    next_run # None =>
        LET f == wait_from[1]
            n == next_run[1]
        IN  /\ Earlier(f, n)
            /\ n.minute % Step = 0
            /\ n.second = 0
            /\ n.microsecond = 0
            /\ Seconds(n) - Seconds(f) <= Step * SecondsPerMinute
            /\ slept

\* C2: with a credential that cannot be loaded the process never enters the
\* scheduling loop: no Waiting and no Running phase occurs, and the failure
\* is not caught as the error of a cycle.
C2_NoLoopWithoutCredential ==
    env_key # "valid" =>
        /\ pc \notin {"Waiting"} \cup InCycle
        /\ outcome.how # "raised"

\* C9: no two cycles start in the same 5-minute window, and every cycle
\* starts after a wait that reached a 5-minute mark later than the time the
\* wait began.
C9_OneCyclePerWindow ==
    /\ \A i, j \in 1..Len(cycle_starts) :
         i < j => Window(cycle_starts[i]) < Window(cycle_starts[j])
    /\ pc = "Running" => Window(wait_from[1]) < Window(now)

\* C3, as claimed: a cycle that raises, at any step, the insert included,
\* leaves the table as it was, makes no insert call unless the insert itself
\* raised, drops the rows it had accumulated and leaves the loop at its head;
\* and the rows a cycle accumulates and stores are all its own (they carry
\* its timestamp).
C3_FailedCycleStoresNothing ==
    [][/\ (pc \in InCycle /\ outcome'.how = "raised") =>
            /\ pc' = "Waiting"
            /\ table' = table
            /\ rows_to_insert' = << >>
            /\ pc # "Insert" => insert_calls' = insert_calls
       /\ \A i \in 1..Len(rows_to_insert') :
            rows_to_insert'[i].timestamp_utc = timestamp'[1]
       /\ \A i \in (Len(table) + 1)..Len(table') :
            /\ timestamp # None
            /\ table'[i].timestamp_utc = timestamp[1]]_vars

\* C3, amended: a cycle that raises before the insert leaves the table as it
\* was and makes no insert call; a cycle whose insert raises leaves in the
\* table what the store took of that one call, nothing or the batch; either
\* way the rows accumulated are dropped and the loop is at its head; and the
\* rows a cycle accumulates and stores are all its own.
C3_FailedFetchStoresNothing ==
    [][/\ (pc \in InCycle /\ outcome'.how = "raised") =>
            /\ pc' = "Waiting"
            /\ rows_to_insert' = << >>
            /\ IF pc = "Insert"
               THEN /\ table' \in {table, table \o rows_to_insert}
                    /\ insert_calls' = insert_calls + 1
               ELSE /\ table' = table
                    /\ insert_calls' = insert_calls
       /\ \A i \in 1..Len(rows_to_insert') :
            rows_to_insert'[i].timestamp_utc = timestamp'[1]
       /\ \A i \in (Len(table) + 1)..Len(table') :
            /\ timestamp # None
            /\ table'[i].timestamp_utc = timestamp[1]]_vars

\* C3 witness: a cycle has raised with rows accumulated and without an insert
\* call; nothing is stored and the loop is at its head.
C3_Witness ==
    /\ pc = "Waiting"
    /\ outcome.how = "raised"
    /\ outcome.rows > 0
    /\ table = << >>
    /\ insert_calls = 0

\* C4: the loop starts in Waiting; Waiting is followed by Running; the
\* Running phase calls run_snapshot once, is left only to Waiting, and is
\* left eventually, whether run_snapshot returns or raises.
C4_WaitingRunningAlternate ==
    /\ [][/\ pc = "Start" => pc' = "Waiting"
          /\ pc = "Waiting" => pc' = "Running"
          /\ pc \in InCycle => pc' \in (InCycle \ {"Running"}) \cup {"Waiting"}
          /\ Len(cycle_starts') = Len(cycle_starts) + (IF pc = "Running" THEN 1 ELSE 0)
          /\ (pc \in InCycle /\ outcome'.how \in {"returned", "raised"}) =>
                 pc' = "Waiting"]_vars
    /\ [](pc \in InCycle => <>(pc = "Waiting"))

\* C4 witness: a Running phase that follows a cycle that raised.
C4_Witness ==
    /\ pc = "Running"
    /\ outcome.how = "raised"
    /\ Len(cycle_starts) > 0

\* The rest of a B/T suffix cannot be a number: it is empty, or holds a
\* character that is neither a digit nor ".".
NotNumeric(ms) ==
    \E i \in 1..Len(ms) :
        LET suffix == LastSegment(ms[i].ticker)
        IN  /\ ms[i].ticker # << >>
            /\ IsBT(suffix)
            /\ \/ Len(suffix) = 1
               \/ \E k \in 2..Len(suffix) : suffix[k] \notin Digits \cup {"."}

\* C10: when the markets returned for an event hold a B/T market whose
\* suffix, after its first character, is not a number, run_snapshot raises at
\* that event: every row accumulated so far is dropped, nothing is inserted
\* and the loop is at its head.
C10_UnparseableSuffixRaises ==
    [][(pc = "Events" /\ NotNumeric(markets')) =>
            /\ outcome' = [how |-> "raised", rows |-> Len(rows_to_insert)]
            /\ pc' = "Waiting"
            /\ rows_to_insert' = << >>
            /\ table' = table
            /\ insert_calls' = insert_calls]_vars

\* C10 witness: a cycle raised on such a list, with rows of an earlier series
\* accumulated.
C10_Witness ==
    /\ pc = "Waiting"
    /\ outcome.how = "raised"
    /\ outcome.rows > 0
    /\ NotNumeric(markets)
    /\ table = << >>

----------------------------------------------------------------------------
\* Properties of the ladder (one event; `markets` is what the venue returned
\* for it)

\* The positions in ms of the markets whose suffix starts with c
Suffixed(ms, c) ==
    {i \in 1..Len(ms) :
        ms[i].ticker # << >> /\ StartsWith(LastSegment(ms[i].ticker), c)}

\* The numeric value of the market at position i of ms
ValueAt(ms, i) == IntOfFloat(From(LastSegment(ms[i].ticker), 1))[1]

\* The numeric value of a suffix
ValueOf(suffix) == IntOfFloat(From(suffix, 1))[1]

LeastValue(ms, S) == CHOOSE v \in {ValueAt(ms, i) : i \in S} : \A i \in S : v <= ValueAt(ms, i)

GreatestValue(ms, S) == CHOOSE v \in {ValueAt(ms, i) : i \in S} : \A i \in S : v >= ValueAt(ms, i)

Min(a, b) == IF a <= b THEN a ELSE b

\* The rows of rows_to_insert that belong to the event being visited
EventRows == SubSeq(rows_to_insert, Len(rows_to_insert) - idx + 1, Len(rows_to_insert))

\* C5: the ladder is the T market of least value (if there is a T market),
\* then every B market, ascending by value, then the T market of greatest
\* value (if there are two or more T markets); the rows' order values are
\* the positions in it, counted from 1.
C5_LadderOrder ==
    pc = "Markets" =>
        LET ts == Suffixed(markets, "T")
            bs == Suffixed(markets, "B")
            n == Len(ordered_markets)
            first == Min(Cardinality(ts), 1)
        IN  /\ n = first + Cardinality(bs) + (IF Cardinality(ts) > 1 THEN 1 ELSE 0)
            /\ ts # {} =>
                 /\ \E i \in ts : ordered_markets[1].ticker = markets[i].ticker
                 /\ ValueOf(ordered_markets[1].suffix) = LeastValue(markets, ts)
            /\ Cardinality(ts) > 1 =>
                 /\ \E i \in ts : ordered_markets[n].ticker = markets[i].ticker
                 /\ ValueOf(ordered_markets[n].suffix) = GreatestValue(markets, ts)
                 /\ ordered_markets[n] # ordered_markets[1]
            /\ {ordered_markets[k].ticker : k \in (first + 1)..(first + Cardinality(bs))}
                 = {markets[i].ticker : i \in bs}
            /\ \A k \in (first + 1)..(first + Cardinality(bs) - 1) :
                 ValueOf(ordered_markets[k].suffix) <= ValueOf(ordered_markets[k + 1].suffix)
            /\ \A k \in 1..n :
                 ordered_markets[k].suffix = LastSegment(ordered_markets[k].ticker)
            /\ Len(EventRows) = idx
            /\ \A k \in 1..idx :
                 /\ EventRows[k].order = k
                 /\ EventRows[k].market = ordered_markets[k].suffix

\* C5 witness: two T and two B markets, returned out of order, all visited.
C5_Witness ==
    /\ pc = "Markets"
    /\ markets = << [ticker |-> Ticker(T23)], [ticker |-> Ticker(B21)],
                    [ticker |-> Ticker(T15)], [ticker |-> Ticker(B20)] >>
    /\ idx = 4
    /\ [k \in 1..4 |-> rows_to_insert[k].market] = << T15, B20, B21, T23 >>
    /\ [k \in 1..4 |-> rows_to_insert[k].order] = << 1, 2, 3, 4 >>

\* C6: a B market's row is `range` from its value to its value + 1; the first
\* row of a ladder with a T market is that T market's, `below` with upper
\* bound value - 1 and no lower bound; a T market's row further down is
\* `above` with lower bound value + 1 and no upper bound.  So an event has at
\* most one `below` and one `above` row, a lone T market is `below`, and an
\* event without T markets has `range` rows only.
C6_BucketAssignment ==
    pc = "Markets" =>
        LET ts == Suffixed(markets, "T")
            rows == EventRows
            of(type) == {k \in 1..Len(rows) : rows[k].bucket_type = type}
        IN  /\ \A k \in 1..Len(rows) :
                 LET r == rows[k]
                     v == ValueOf(r.market)
                 IN  IF StartsWith(r.market, "B")
                     THEN /\ r.bucket_type = "range"
                          /\ r.lower_bound = << v >>
                          /\ r.upper_bound = << v + 1 >>
                     ELSE /\ StartsWith(r.market, "T")
                          /\ IF k = 1
                             THEN /\ r.bucket_type = "below"
                                  /\ r.lower_bound = << >>
                                  /\ r.upper_bound = << v - 1 >>
                             ELSE /\ r.bucket_type = "above"
                                  /\ r.lower_bound = << v + 1 >>
                                  /\ r.upper_bound = << >>
                                  /\ k = Len(ordered_markets)
            /\ Cardinality(of("below")) <= 1
            /\ Cardinality(of("above")) <= 1
            /\ Cardinality(ts) <= 1 => of("above") = {}
            /\ ts = {} => of("below") = {}
            /\ idx = Len(ordered_markets) =>
                 /\ Cardinality(of("below")) = Min(Cardinality(ts), 1)
                 /\ Cardinality(of("above")) = (IF Cardinality(ts) > 1 THEN 1 ELSE 0)

\* What C6 says of a row
Labelled(r) ==
    << r.market, r.bucket_type, r.lower_bound, r.upper_bound, r.order >>

\* C6 witness: X-B20, X-B21, X-T15, X-T23 gives T15 below up to 14, B20 range
\* 20-21, B21 range 21-22, T23 above from 24, in the order 1..4.
C6_Witness ==
    /\ pc = "Markets"
    /\ markets = << [ticker |-> Ticker(B20)], [ticker |-> Ticker(B21)],
                    [ticker |-> Ticker(T15)], [ticker |-> Ticker(T23)] >>
    /\ idx = 4
    /\ [k \in 1..4 |-> Labelled(rows_to_insert[k])] =
         << << T15, "below", << >>, << 14 >>, 1 >>,
            << B20, "range", << 20 >>, << 21 >>, 2 >>,
            << B21, "range", << 21 >>, << 22 >>, 3 >>,
            << T23, "above", << 24 >>, << >>, 4 >> >>

\* The number of stored rows of the market with this suffix
Stored(suffix) == Cardinality({k \in 1..Len(table) : table[k].market = suffix})

\* C8, as claimed: in a cycle that returns, every market whose suffix starts
\* with B or T has exactly one row in the batch, and every other market none.
C8_OneRowPerMarket ==
    outcome.how = "returned" =>
        \A i \in 1..Len(markets) :
            Stored(LastSegment(markets[i].ticker)) =
                (IF i \in Suffixed(markets, "B") \cup Suffixed(markets, "T") THEN 1 ELSE 0)

\* C8, amended: in a cycle that returns, every B market has exactly one row
\* in the batch and every market that is neither B nor T has none; of the T
\* markets, one of least value and (when there are two or more) one of
\* greatest value have one row each and the others have none.
C8_OneRowPerLadderMarket ==
    outcome.how = "returned" =>
        LET ts == Suffixed(markets, "T")
            bs == Suffixed(markets, "B")
            rowed == {i \in ts : Stored(LastSegment(markets[i].ticker)) = 1}
        IN  /\ \A i \in bs : Stored(LastSegment(markets[i].ticker)) = 1
            /\ \A i \in (1..Len(markets)) \ (bs \cup ts) :
                 Stored(LastSegment(markets[i].ticker)) = 0
            /\ \A i \in ts \ rowed : Stored(LastSegment(markets[i].ticker)) = 0
            /\ Cardinality(rowed) = Min(Cardinality(ts), 2)
            /\ ts # {} => \E i \in rowed : ValueAt(markets, i) = LeastValue(markets, ts)
            /\ Cardinality(ts) > 1 =>
                 \E i, j \in rowed :
                     /\ i # j
                     /\ ValueAt(markets, i) = LeastValue(markets, ts)
                     /\ ValueAt(markets, j) = GreatestValue(markets, ts)
            /\ Len(table) = Cardinality(bs) + Cardinality(rowed)

\* C8 witness: a cycle returned for an event with three T markets and a B
\* market; the T market in the middle has no row.
C8_Witness ==
    /\ outcome.how = "returned"
    /\ markets = << [ticker |-> Ticker(T19)], [ticker |-> Ticker(T15)],
                    [ticker |-> Ticker(B20)], [ticker |-> Ticker(T23)] >>
    /\ [k \in 1..Len(table) |-> table[k].market] = << T15, B20, T23 >>

----------------------------------------------------------------------------
\* Properties of extract_depth

\* A side of the order book as the venue sent it: its levels, none when the
\* side is absent, null or empty
Raw(side) ==
    IF side \in DOMAIN orderbook /\ orderbook[side].kind = "list"
    THEN orderbook[side].items
    ELSE << >>

\* C7: yes_bids are the (up to 5) highest-priced yes levels, best first;
\* yes_asks are the (up to 5) highest-priced no levels, each as
\* (100 - price, quantity), ascending by ask price; prices stay in 0..100.
C7_DepthLevels ==
    (pc = "Markets" /\ idx > 0) =>
        LET yes == Raw("yes")
            no == Raw("no")
            bids == depth.yes_bids
            asks == depth.yes_asks
        IN  /\ Len(bids) = Min(Len(yes), Depth)
            /\ \A i \in 1..Len(bids) : bids[i] = yes[Len(yes) + 1 - i]
            /\ Len(asks) = Min(Len(no), Depth)
            /\ \A i \in 1..Len(asks) :
                 /\ asks[i][1] = Complement - no[Len(no) + 1 - i][1]
                 /\ asks[i][2] = no[Len(no) + 1 - i][2]
                 /\ asks[i][1] \in 0..Complement
            /\ \A i \in 1..(Len(asks) - 1) : asks[i][1] <= asks[i + 1][1]
            /\ \A i \in 1..(Len(bids) - 1) : bids[i][1] >= bids[i + 1][1]

\* C7 witness: more than 5 levels on the no side, at more than one price.
C7_Witness ==
    /\ pc = "Markets"
    /\ idx > 0
    /\ Len(Raw("no")) > Depth
    /\ Len(depth.yes_asks) = Depth
    /\ depth.yes_asks[1][1] < depth.yes_asks[Depth][1]
    /\ Raw("no")[1][1] < Raw("no")[2][1]

====
